---- MODULE Spec2Model ----
(***************************************************************************)
(* A model of pysdd/io.py: the two file evaluators nnf_file_wmc and        *)
(* sdd_file_wmc (weighted model counting over a serialized circuit) and    *)
(* the DOT renderer sdd_to_dot / _sddnode_to_dot_int with its module-level *)
(* counter node_count.                                                     *)
(*                                                                         *)
(* Evaluators: a file is read line by line; one action per line of the     *)
(* `for line in file.readlines()` loop and one for the return statement    *)
(* after the loop.  A line is its leading token and its remaining tokens   *)
(* (integers): cols[0] = tok, cols[j] = args[j].  A weight-array slot is   *)
(* either None or a number.  Weights are small naturals standing for the   *)
(* floats of the same value (sums and products of them are exact).         *)
(***************************************************************************)
EXTENDS Integers, Sequences, FiniteSets, TLC

\* ------------------------------------------------------------------ bounds
MaxLines == 4      \* lines of a file that are read before the end of file
MaxSize == 3       \* largest node count / capacity a header declares
MaxVar == 2        \* variables 1..MaxVar

\* ------------------------------------------------------- program constants
true_weight == 1
false_weight == 0

VARIABLES
    evKind,      \* which evaluator runs: "nnf" or "sdd"
    weights,     \* the weights argument (a table, or WNone for weights=None)
    lines,       \* the lines read so far, in file order
    wmc,         \* the weight array
    ln,          \* the line counter ln
    detected,    \* detected_nnf / detected_sdd
    pc,          \* "reading" (inside the loop) or "done"
    outcome,     \* "running", "return", or the exception raised
    result,      \* the returned object (a slot value)
    node_count,  \* the module-level counter of the renderer
    rcall,       \* renderer: the arguments of the latest sdd_to_dot call
    rout,        \* renderer: what the latest call returned
    memo,        \* renderer: an earlier call (arguments and returned text)
    th           \* renderer: the threads of the concurrent specification

evalVars == <<evKind, weights, lines, wmc, ln, detected, pc, outcome, result>>
renderVars == <<node_count, rcall, rout, memo, th>>
vars == <<evKind, weights, lines, wmc, ln, detected, pc, outcome, result,
          node_count, rcall, rout, memo, th>>

\* ---------------------------------------------------------- Python values
None == [set |-> FALSE, v |-> 0]
Num(x) == [set |-> TRUE, v |-> x]

Errors == {"Exception", "IndexError", "TypeError", "ValueError"}

\* list[i] for a Python list of length n: valid for -n <= i < n.
PyInRange(w, i) == i >= -Len(w) /\ i < Len(w)
\* The 1-based position Python's list[i] denotes (negative i counts from the end).
PyPos(w, i) == IF i < 0 THEN Len(w) + i + 1 ELSE i + 1
\* [None] * n  (a non-positive n gives the empty list)
NoneList(n) == [i \in 1..(IF n > 0 THEN n ELSE 0) |-> None]

Ln(t, a) == [tok |-> t, args |-> a]

\* ---------------------------------------------------------- weight tables
WNone == [isNone |-> TRUE, keys |-> {}, val |-> [k \in {} |-> 0]]
WTable(f) == [isNone |-> FALSE, keys |-> DOMAIN f, val |-> f]
Lits == {l \in -MaxVar..MaxVar : l # 0}
WeightTables ==
    { WNone,
      WTable([k \in {} |-> 0]),
      WTable([k \in Lits |-> 1]),
      WTable([k \in {1, -1} |-> IF k = 1 THEN 2 ELSE 3]) }

\* `weights[lit] if lit in weights else default`
LitWeight(wt, lit, default) ==
    IF lit \in wt.keys THEN wt.val[lit] ELSE default

\* ------------------------------------------------------------ the evaluators
Step(err, w) == [err |-> err, w |-> w]

\* wmc[ln] *= x  /  wmc[ln] += x
MulAsAdd(a, b) == a + b
MulOp(a, b) == a * b
AddOp(a, b) == a + b
Apply(op, a, b) == IF op = "mul" THEN MulOp(a, b) ELSE AddOp(a, b)

\* for i in range(k): wmc[ln] op= wmc[int(cols[first + i])]
RECURSIVE NnfFold(_, _, _, _, _, _, _)
NnfFold(w, slot, l, op, first, i, k) ==
    IF i >= k THEN Step("", w)
    ELSE IF first + i > Len(l.args) THEN Step("IndexError", w)
    ELSE LET c == l.args[first + i] IN
         IF ~PyInRange(w, c) THEN Step("IndexError", w)
         ELSE LET x == w[PyPos(w, c)]
                  cur == w[slot + 1]
              IN IF ~x.set THEN Step("TypeError", w)
                 ELSE NnfFold([w EXCEPT ![slot + 1] = Num(Apply(op, cur.v, x.v))],
                              slot, l, op, first, i + 1, k)

\* if cols[0] == 'L': ...
NnfLit(w, slot, l, wt) ==
    IF Len(l.args) < 1 THEN Step("IndexError", w)
    ELSE IF wt.isNone THEN Step("TypeError", w)
    ELSE IF slot >= Len(w) THEN Step("IndexError", w)
    ELSE Step("", [w EXCEPT ![slot + 1] = Num(LitWeight(wt, l.args[1], true_weight))])

\* if cols[0] == 'A': ...
NnfAnd(w, slot, l) ==
    IF slot >= Len(w) THEN Step("IndexError", w)
    ELSE IF Len(l.args) < 1 THEN Step("IndexError", [w EXCEPT ![slot + 1] = Num(1)])
    ELSE NnfFold([w EXCEPT ![slot + 1] = Num(1)], slot, l, "mul", 2, 0, l.args[1])

\* if cols[0] == 'O': ...
NnfOr(w, slot, l) ==
    IF slot >= Len(w) THEN Step("IndexError", w)
    ELSE IF Len(l.args) < 2 THEN Step("IndexError", [w EXCEPT ![slot + 1] = Num(false_weight)])
    ELSE NnfFold([w EXCEPT ![slot + 1] = Num(false_weight)], slot, l, "add", 3, 0, l.args[2])

\* The body of the loop of nnf_file_wmc below the header checks.
NnfBody(w, slot, l, wt) ==
    IF l.tok = "L" THEN NnfLit(w, slot, l, wt)
    ELSE IF l.tok = "A" THEN NnfAnd(w, slot, l)
    ELSE IF l.tok = "O" THEN NnfOr(w, slot, l)
    ELSE Step("", w)

\* wmc[nodeid] = x
SddStore(w, nodeid, x) ==
    IF ~PyInRange(w, nodeid) THEN Step("IndexError", w)
    ELSE Step("", [w EXCEPT ![PyPos(w, nodeid)] = x])

\* for idx in range(nb_elmts): w += wmc[elmts[2*idx]] * wmc[elmts[2*idx+1]]
\* (elmts = cols[4:], so elmts[j] = args[4 + j]); returns the error and the sum.
RECURSIVE SddSum(_, _, _, _, _)
SddSum(w, l, idx, nb, acc) ==
    IF idx >= nb THEN [err |-> "", sum |-> acc]
    ELSE IF 4 + 2 * idx > Len(l.args) THEN [err |-> "IndexError", sum |-> acc]
    ELSE IF ~PyInRange(w, l.args[4 + 2 * idx]) THEN [err |-> "IndexError", sum |-> acc]
    ELSE IF 5 + 2 * idx > Len(l.args) THEN [err |-> "IndexError", sum |-> acc]
    ELSE IF ~PyInRange(w, l.args[5 + 2 * idx]) THEN [err |-> "IndexError", sum |-> acc]
    ELSE LET p == w[PyPos(w, l.args[4 + 2 * idx])]
             s == w[PyPos(w, l.args[5 + 2 * idx])]
         IN IF ~p.set \/ ~s.set THEN [err |-> "TypeError", sum |-> acc]
            ELSE SddSum(w, l, idx + 1, nb, acc + p.v * s.v)

SddLit(w, l, wt) ==
    IF Len(l.args) < 3 THEN Step("IndexError", w)
    ELSE IF wt.isNone THEN Step("TypeError", w)
    ELSE SddStore(w, l.args[1], Num(LitWeight(wt, l.args[3], 1)))

SddConst(w, l, x) ==
    IF Len(l.args) < 1 THEN Step("IndexError", w)
    ELSE SddStore(w, l.args[1], Num(x))

SddDecision(w, l) ==
    IF Len(l.args) < 3 THEN Step("IndexError", w)
    ELSE LET r == SddSum(w, l, 0, l.args[3], 0) IN
         IF r.err # "" THEN Step(r.err, w)
         ELSE SddStore(w, l.args[1], Num(r.sum))

\* The body of the loop of sdd_file_wmc below the header checks.
SddBody(w, l, wt) ==
    IF l.tok = "L" THEN SddLit(w, l, wt)
    ELSE IF l.tok = "F" THEN SddConst(w, l, false_weight)
    ELSE IF l.tok = "T" THEN SddConst(w, l, true_weight)
    ELSE IF l.tok = "D" THEN SddDecision(w, l)
    ELSE Step("", w)

HeaderTok == IF evKind = "nnf" THEN "nnf" ELSE "sdd"

\* ------------------------------------------------------- the files explored
Refs == -1..(MaxSize - 1)

NnfAlphabet ==
    {Ln("c", <<>>), Ln("X", <<>>), Ln("A", <<0>>), Ln("O", <<0, 0>>)}
    \cup {Ln("nnf", <<n, 0, v>>) : n \in 0..MaxSize, v \in 1..MaxVar}
    \cup {Ln("L", <<l>>) : l \in Lits}
    \cup {Ln("A", <<1, c>>) : c \in Refs}
    \cup {Ln("A", <<2, c, d>>) : c \in Refs, d \in Refs}
    \cup {Ln("O", <<0, 1, c>>) : c \in Refs}
    \cup {Ln("O", <<0, 2, c, d>>) : c \in Refs, d \in Refs}

SddAlphabet ==
    {Ln("c", <<>>), Ln("X", <<>>)}
    \cup {Ln("sdd", <<n>>) : n \in 0..MaxSize}
    \cup {Ln("L", <<i, 0, l>>) : i \in Refs, l \in Lits}
    \cup {Ln("F", <<i>>) : i \in Refs}
    \cup {Ln("T", <<i>>) : i \in Refs}
    \cup {Ln("D", <<i, 0, 0>>) : i \in Refs}
    \cup {Ln("D", <<i, 0, 1, p, s>>) : i \in Refs, p \in Refs, s \in Refs}
    \cup {Ln("D", <<0, 0, 2, p, s, q, t>>) :
               p \in 1..(MaxSize - 1), s \in 1..(MaxSize - 1),
               q \in 1..(MaxSize - 1), t \in 1..(MaxSize - 1)}

Alphabet == IF evKind = "nnf" THEN NnfAlphabet ELSE SddAlphabet

\* ------------------------------------------------------------------ actions
InitEval ==
    /\ evKind \in {"nnf", "sdd"}
    /\ weights \in WeightTables
    /\ lines = <<>>
    /\ wmc = <<>>
    /\ ln = 0
    /\ detected = FALSE
    /\ pc = "reading"
    /\ outcome = "running"
    /\ result = None

Raise(e) ==
    /\ pc' = "done"
    /\ outcome' = e
    /\ UNCHANGED <<wmc, ln, detected, result>>

\* The loop is running and the file has another line.
MoreLines == pc = "reading" /\ Len(lines) < MaxLines

\* One iteration of `for line in file.readlines()` reads line l.
Reads(l) ==
    /\ lines' = Append(lines, l)
    /\ UNCHANGED <<evKind, weights>>
    /\ UNCHANGED renderVars

\* if cols[0] == 'c': continue
ReadComment ==
    MoreLines /\ \E l \in Alphabet :
        /\ Reads(l)
        /\ l.tok = "c"
        /\ UNCHANGED <<wmc, ln, detected, pc, outcome, result>>

\* if cols[0] == 'nnf' (resp. 'sdd'): wmc = [None] * int(cols[1]); continue
ReadHeader ==
    MoreLines /\ \E l \in Alphabet :
        /\ Reads(l)
        /\ l.tok = HeaderTok
        /\ IF Len(l.args) < 1
           THEN Raise("IndexError")
           ELSE /\ wmc' = NoneList(l.args[1])
                /\ detected' = TRUE
                /\ UNCHANGED <<ln, pc, outcome, result>>

\* if not detected: raise Exception("... should start with ...")
ReadUndetected ==
    MoreLines /\ \E l \in Alphabet :
        /\ Reads(l)
        /\ l.tok \notin {"c", HeaderTok}
        /\ ~detected
        /\ Raise("Exception")

\* the L / A / O (resp. L / F / T / D) branches, then ln += 1
ReadBody ==
    MoreLines /\ \E l \in Alphabet :
        /\ Reads(l)
        /\ l.tok \notin {"c", HeaderTok}
        /\ detected
        /\ LET r == IF evKind = "nnf" THEN NnfBody(wmc, ln, l, weights)
                    ELSE SddBody(wmc, l, weights)
           IN IF r.err # ""
              THEN Raise(r.err)
              ELSE /\ wmc' = r.w
                   /\ ln' = ln + 1
                   /\ UNCHANGED <<detected, pc, outcome, result>>

\* return wmc[-1]  (nnf_file_wmc)  /  return wmc[0]  (sdd_file_wmc)
ReturnIndex == IF evKind = "nnf" THEN -1 ELSE 0

EndOfFile ==
    /\ pc = "reading"
    /\ pc' = "done"
    /\ IF PyInRange(wmc, ReturnIndex)
       THEN /\ outcome' = "return"
            /\ result' = wmc[PyPos(wmc, ReturnIndex)]
       ELSE /\ outcome' = "IndexError"
            /\ result' = result
    /\ UNCHANGED <<evKind, weights, lines, wmc, ln, detected>>
    /\ UNCHANGED renderVars

\* ================================================================ renderer
\* --------------------------------------------------- the DAGs rendered
\* The external object model, read through is_true / is_false / is_literal /
\* is_decision / literal / id / vtree / elements.  A node is named by its
\* index in Dag (its object identity); 0 stands for the argument None.
\* vt = -1 stands for vtree() returning None.
LeafNode(k, i, lit, vt) == [kind |-> k, id |-> i, literal |-> lit, vt |-> vt, elements |-> <<>>]
DecNode(i, vt, es) == [kind |-> "decision", id |-> i, literal |-> 0, vt |-> vt, elements |-> es]
Dag ==
    << LeafNode("literal", 11, 1, 0),                \* 1
       LeafNode("literal", 12, -1, 0),               \* 2
       LeafNode("true", 13, 0, -1),                  \* 3
       LeafNode("false", 14, 0, -1),                 \* 4
       LeafNode("literal", 15, 2, 2),                \* 5
       DecNode(16, 1, << <<1, 5>>, <<2, 4>> >>),     \* 6
       DecNode(17, 1, << <<1, 3>>, <<2, 5>> >>),     \* 7
       DecNode(18, 3, << <<6, 3>>, <<7, 6>> >>),     \* 8
       DecNode(19, 3, << <<5, 5>> >>),               \* 9
       DecNode(20, 3, << <<8, 6>>, <<7, 1>> >>) >>   \* 10
Nodes == 1..Len(Dag)
IsLeaf(n) == Dag[n].kind \in {"false", "true", "literal"}
IsDecision(n) == Dag[n].kind = "decision"

\* Python objects used as names and labels: a str or an int.
PyStr(x) == [k |-> "str", s |-> x, n |-> 0]
PyInt(x) == [k |-> "int", s |-> "", n |-> x]

\* litnamemap arguments: 0 is None, 1 a map with some of the keys.
LabelMapEntries ==
    { <<PyInt(1), PyStr("a")>>, <<PyInt(-1), PyStr("not a")>>,
      <<PyStr("true"), PyStr("yes")>>, <<PyStr("yes"), PyStr("YES")>>,
      <<PyStr("mult"), PyStr("and")>> }
LabelMap(m) == IF m = 0 THEN {} ELSE LabelMapEntries
LabelMaps == {0, 1}
\* litnamemap.get(key, default)
MapGet(m, key, default) ==
    IF \E e \in m : e[1] = key THEN (CHOOSE e \in m : e[1] = key)[2] ELSE default

Calls == [root : {0} \cup Nodes, lm : LabelMaps, show : BOOLEAN, merge : BOOLEAN]

\* ------------------------------------------------------ the text produced
\* An identifier is the text pre ++ str(a) (++ "_" ++ str(b) when pre is not
\* empty); decimal formatting is injective, so this names the text exactly.
StrId(i) == [pre |-> "", a |-> i, b |-> 0]
FmtLeafId(c, i) == [pre |-> "n", a |-> c, b |-> i]
PsId(i, idx) == [pre |-> "ps_", a |-> i, b |-> idx]
NoId == [pre |-> "-", a |-> 0, b |-> 0]
NoLabel == PyStr("")
\* The xlabel option: absent, or "Id:{id}\nVp:{pos}" with pos = "n" for vt = -1.
NoXlabel == [shown |-> FALSE, id |-> 0, vp |-> 0]
Stmt(t, id, to, label, xl) == [t |-> t, id |-> id, to |-> to, label |-> label, xl |-> xl]
\* "{nodeid} [shape=rectangle,label=\"{label}\"{extra_options}];"
LeafStmt(id, label, xl) == Stmt("leaf", id, NoId, label, xl)
\* "{nodeid} [shape=circle,label=\"{add}\"{extra_options}];"
DecStmt(id, label, xl) == Stmt("dec", id, NoId, label, xl)
\* "{ps_id} [shape=circle, label=\"{mult}\"];"
PsStmt(id, label) == Stmt("ps", id, NoId, label, NoXlabel)
\* "{} -> {} [arrowhead=none];"
EdgeNoHead(from, to) == Stmt("edge_nohead", from, to, NoLabel, NoXlabel)
\* "{} -> {};"
Edge(from, to) == Stmt("edge", from, to, NoLabel, NoXlabel)
OpenStmt == Stmt("digraph sdd {", NoId, NoId, NoLabel, NoXlabel)
CloseStmt == Stmt("}", NoId, NoId, NoLabel, NoXlabel)

\* _format_sddnode_label(node, None, litnamemap).  The default glyphs of the
\* source are written in ASCII: "TOP", "BOTTOM", and "x" for the product sign.
FormatLabel(n, m) ==
    LET name == IF Dag[n].kind = "true" THEN MapGet(m, PyStr("true"), PyStr("TOP"))
                ELSE IF Dag[n].kind = "false" THEN MapGet(m, PyStr("false"), PyStr("BOTTOM"))
                ELSE PyInt(Dag[n].literal)
    IN MapGet(m, name, name)

\* extra_options: the xlabel of _format_sddnode_xlabel(node) when show_id
ExtraOptions(n, show) ==
    IF show THEN [shown |-> TRUE, id |-> Dag[n].id, vp |-> Dag[n].vt] ELSE NoXlabel

\* node_count = 0 at the start of sdd_to_dot (old: the value before the call)
ResetKept(old) == old
ResetCount(old) == 0
\* node_count += 1
NextCountSame(c) == c
NextCount(c) == c + 1
\* visited.add(node) for a decision node
VisitDecisionSkipped(visited, n) == visited
VisitDecision(visited, n) == visited \cup {n}

\* What one call of _sddnode_to_dot_int yields: the returned pair (id, s) and
\* the visited set and counter it leaves.
Ret(id, s, visited, count) == [id |-> id, s |-> s, visited |-> visited, count |-> count]

\* The statements appended for element idx once prime and sub are rendered.
ElementStmts(n, idx, m, pr, sr) ==
    << PsStmt(PsId(Dag[n].id, idx), MapGet(m, PyStr("mult"), PyStr("x"))),
       EdgeNoHead(StrId(Dag[n].id), PsId(Dag[n].id, idx)),
       Edge(PsId(Dag[n].id, idx), pr.id),
       Edge(PsId(Dag[n].id, idx), sr.id) >> \o pr.s \o sr.s

\* The leaf branch of _sddnode_to_dot_int
LeafToDot(n, visited, count, m, show, merge) ==
    LET nodeid == IF merge THEN StrId(Dag[n].id) ELSE FmtLeafId(count, Dag[n].id)
    IN Ret(nodeid,
           <<LeafStmt(nodeid, FormatLabel(n, m), ExtraOptions(n, show))>>,
           IF merge THEN visited \cup {n} ELSE visited,
           IF merge THEN count ELSE NextCount(count))

RECURSIVE SddNodeToDotInt(_, _, _, _, _, _)
RECURSIVE ElementsToDot(_, _, _, _, _, _, _, _)

\* for idx, (prime, sub) in enumerate(node.elements()): ...
ElementsToDot(n, idx, s, visited, count, m, show, merge) ==
    IF idx >= Len(Dag[n].elements) THEN Ret(StrId(Dag[n].id), s, visited, count)
    ELSE LET e == Dag[n].elements[idx + 1]
             pr == SddNodeToDotInt(e[1], visited, count, m, show, merge)
             sr == SddNodeToDotInt(e[2], pr.visited, pr.count, m, show, merge)
         IN ElementsToDot(n, idx + 1, s \o ElementStmts(n, idx, m, pr, sr),
                          sr.visited, sr.count, m, show, merge)

\* _sddnode_to_dot_int(node, visited, litnamemap, show_id, merge_leafs)
SddNodeToDotInt(n, visited, count, m, show, merge) ==
    IF n \in visited THEN Ret(StrId(Dag[n].id), <<>>, visited, count)
    ELSE IF IsLeaf(n) THEN LeafToDot(n, visited, count, m, show, merge)
    ELSE ElementsToDot(n, 0,
            <<DecStmt(StrId(Dag[n].id), MapGet(m, PyStr("add"), PyStr("+")),
                      ExtraOptions(n, show))>>,
            VisitDecision(visited, n), count, m, show, merge)

\* What sdd_to_dot returns or raises, and the counter it leaves.
Text(s) == [status |-> "text", text |-> <<OpenStmt>> \o s \o <<CloseStmt>>]
Raised(e) == [status |-> e, text |-> <<>>]
NoOut == [status |-> "none", text |-> <<>>]

\* sdd_to_dot(node, litnamemap, show_id, merge_leafs) with node_count = old before
SddToDot(c, old) ==
    IF c.root = 0
    THEN [out |-> Raised("ValueError"), count |-> ResetCount(old)]
    ELSE LET r == SddNodeToDotInt(c.root, {}, ResetCount(old), LabelMap(c.lm), c.show, c.merge)
         IN [out |-> Text(r.s), count |-> r.count]

NoCall == [root |-> 0, lm |-> 0, show |-> FALSE, merge |-> FALSE]
NoMemo == [valid |-> FALSE, call |-> NoCall, out |-> NoOut]

InitRenderIdle ==
    /\ node_count = 0
    /\ rcall = NoCall
    /\ rout = NoOut
    /\ memo = NoMemo
    /\ th = <<>>

InitEvalIdle ==
    /\ evKind = "nnf"
    /\ weights = WNone
    /\ lines = <<>>
    /\ wmc = <<>>
    /\ ln = 0
    /\ detected = FALSE
    /\ pc = "idle"
    /\ outcome = "running"
    /\ result = None

\* One complete sdd_to_dot call, after any earlier calls.  memo keeps the call
\* before this one, or an older one.
Render ==
    /\ \E c \in Calls :
        LET r == SddToDot(c, node_count) IN
        /\ node_count' = r.count
        /\ rcall' = c
        /\ rout' = r.out
    /\ memo' \in {memo, [valid |-> rout.status # "none", call |-> rcall, out |-> rout]}
    /\ UNCHANGED th
    /\ UNCHANGED evalVars

Init == InitEval /\ InitRenderIdle

Next == ReadComment \/ ReadHeader \/ ReadUndetected \/ ReadBody \/ EndOfFile

Spec == Init /\ [][Next]_vars

InitRender == InitEvalIdle /\ InitRenderIdle

NextRender == Render

SpecRender == InitRender /\ [][NextRender]_vars

\* ------------------------------------------- two threads calling sdd_to_dot
\* Each thread runs one sdd_to_dot call, one step per recursive call, return,
\* loop test and access to the shared node_count: the reset, the read that
\* formats a leaf id, and the load and the store of node_count += 1.
ThreadIds == {1, 2}
ConcRoots == {0, 1, 6, 9}
ConcCalls == [root : ConcRoots, lm : {0}, show : {FALSE}, merge : BOOLEAN]
NoRet == [id |-> NoId, s |-> <<>>]
IdleThread ==
    [pc |-> "idle", call |-> NoCall, cur |-> 0, visited |-> {}, stack |-> <<>>,
     ret |-> NoRet, tmp |-> 0, out |-> NoOut, interfered |-> FALSE]
Frame(n, s) == [n |-> n, idx |-> 0, stage |-> "prime", s |-> s, pr |-> NoRet]
Active(u) == th[u].pc \notin {"idle", "done"}
\* Thread t takes a step that leaves it as rec and does not write node_count.
Local(t, rec) == [th EXCEPT ![t] = rec]
\* Thread t takes a step that writes node_count: every other thread inside a
\* call has had the counter changed under it.
Shared(t, rec) ==
    [u \in ThreadIds |->
        IF u = t THEN rec
        ELSE IF Active(u) THEN [th[u] EXCEPT !.interfered = TRUE]
        ELSE th[u]]

\* sdd_to_dot entered without `node_count = 0`
StartWithoutReset(t) ==
    /\ th[t].pc = "idle"
    /\ \E c \in ConcCalls :
        /\ UNCHANGED node_count
        /\ th' = Local(t,
               IF c.root = 0
               THEN [th[t] EXCEPT !.pc = "done", !.call = c, !.out = Raised("ValueError")]
               ELSE [th[t] EXCEPT !.pc = "enter", !.call = c, !.cur = c.root])

\* sdd_to_dot up to the call of _sddnode_to_dot_int on the root
Start(t) ==
    /\ th[t].pc = "idle"
    /\ \E c \in ConcCalls :
        /\ node_count' = ResetCount(node_count)
        /\ th' = Shared(t,
               IF c.root = 0
               THEN [th[t] EXCEPT !.pc = "done", !.call = c, !.out = Raised("ValueError")]
               ELSE [th[t] EXCEPT !.pc = "enter", !.call = c, !.cur = c.root])

\* _sddnode_to_dot_int(cur, ...) from its entry to the recursive call, the
\* read of node_count or the return, whichever comes first
Enter(t) ==
    LET T == th[t] n == T.cur m == LabelMap(T.call.lm) IN
    /\ T.pc = "enter"
    /\ UNCHANGED node_count
    /\ th' = Local(t,
         IF n \in T.visited
         THEN [T EXCEPT !.pc = "return", !.ret = [id |-> StrId(Dag[n].id), s |-> <<>>]]
         ELSE IF IsLeaf(n) /\ T.call.merge
         THEN [T EXCEPT !.pc = "return", !.visited = T.visited \cup {n},
                        !.ret = [id |-> StrId(Dag[n].id),
                                 s |-> <<LeafStmt(StrId(Dag[n].id), FormatLabel(n, m),
                                                  ExtraOptions(n, T.call.show))>>]]
         ELSE IF IsLeaf(n)
         THEN [T EXCEPT !.pc = "incr_load",
                        !.ret = [id |-> FmtLeafId(node_count, Dag[n].id),
                                 s |-> <<LeafStmt(FmtLeafId(node_count, Dag[n].id),
                                                  FormatLabel(n, m),
                                                  ExtraOptions(n, T.call.show))>>]]
         ELSE [T EXCEPT !.pc = "loop", !.visited = VisitDecision(T.visited, n),
                        !.stack = Append(T.stack,
                            Frame(n, <<DecStmt(StrId(Dag[n].id),
                                               MapGet(m, PyStr("add"), PyStr("+")),
                                               ExtraOptions(n, T.call.show))>>))])

\* node_count += 1: the load
IncrLoad(t) ==
    /\ th[t].pc = "incr_load"
    /\ UNCHANGED node_count
    /\ th' = Local(t, [th[t] EXCEPT !.pc = "incr_store", !.tmp = node_count])

\* node_count += 1: the store
IncrStore(t) ==
    /\ th[t].pc = "incr_store"
    /\ node_count' = NextCount(th[t].tmp)
    /\ th' = Shared(t, [th[t] EXCEPT !.pc = "return"])

\* the test of `for idx, (prime, sub) in enumerate(node.elements())`
Loop(t) ==
    LET T == th[t] f == T.stack[Len(T.stack)] IN
    /\ T.pc = "loop"
    /\ UNCHANGED node_count
    /\ th' = Local(t,
         IF f.idx >= Len(Dag[f.n].elements)
         THEN [T EXCEPT !.pc = "return", !.stack = SubSeq(T.stack, 1, Len(T.stack) - 1),
                        !.ret = [id |-> StrId(Dag[f.n].id), s |-> f.s]]
         ELSE [T EXCEPT !.pc = "enter", !.cur = Dag[f.n].elements[f.idx + 1][1],
                        !.stack[Len(T.stack)].stage = "prime"])

\* a call of _sddnode_to_dot_int returns to its caller
Return(t) ==
    LET T == th[t] IN
    /\ T.pc = "return"
    /\ UNCHANGED node_count
    /\ th' = Local(t,
         IF T.stack = <<>>
         THEN [T EXCEPT !.pc = "done", !.out = Text(T.ret.s)]
         ELSE LET f == T.stack[Len(T.stack)] IN
              IF f.stage = "prime"
              THEN [T EXCEPT !.pc = "enter", !.cur = Dag[f.n].elements[f.idx + 1][2],
                             !.stack[Len(T.stack)].stage = "sub",
                             !.stack[Len(T.stack)].pr = T.ret]
              ELSE [T EXCEPT !.pc = "loop",
                             !.stack[Len(T.stack)].idx = f.idx + 1,
                             !.stack[Len(T.stack)].s =
                                 f.s \o ElementStmts(f.n, f.idx, LabelMap(T.call.lm),
                                                     f.pr, T.ret)])

\* What a step of a thread leaves alone.
ThreadFrame ==
    /\ UNCHANGED <<rcall, rout, memo>>
    /\ UNCHANGED evalVars

InitRenderConc ==
    /\ InitEvalIdle
    /\ node_count = 0
    /\ rcall = NoCall
    /\ rout = NoOut
    /\ memo = NoMemo
    /\ th = [t \in ThreadIds |-> IdleThread]

NextRenderConc ==
    \/ \E t \in ThreadIds : Start(t) /\ ThreadFrame
    \/ \E t \in ThreadIds : Enter(t) /\ ThreadFrame
    \/ \E t \in ThreadIds : IncrLoad(t) /\ ThreadFrame
    \/ \E t \in ThreadIds : IncrStore(t) /\ ThreadFrame
    \/ \E t \in ThreadIds : Loop(t) /\ ThreadFrame
    \/ \E t \in ThreadIds : Return(t) /\ ThreadFrame

SpecRenderConc == InitRenderConc /\ [][NextRenderConc]_vars

\* ================================================================ claims
\* ---------------------------------------------- the file that was read
IsHeader(l) == l.tok = HeaderTok
IsBodyLine(l) == l.tok \notin {"c", HeaderTok}
Recognized == IF evKind = "nnf" THEN {"c", "L", "A", "O"} ELSE {"c", "L", "F", "T", "D"}
Body == SelectSeq(lines, IsBodyLine)
Headers == SelectSeq(lines, IsHeader)
NonComment == SelectSeq(lines, LAMBDA l : l.tok # "c")
\* A header line precedes line i.
HeaderBefore(i) == \E j \in 1..(i - 1) : IsHeader(lines[j])
\* No header line precedes the first body line (or there is no header at all).
HeaderMissing ==
    \A i \in 1..Len(lines) :
        IsHeader(lines[i]) => \E j \in 1..(i - 1) : IsBodyLine(lines[j])

\* The slots a line reads: the children of an A / O line, the primes and subs
\* of a D line (only those the declared count covers).
RefsOf(l) ==
    IF evKind = "nnf" /\ l.tok = "A" /\ Len(l.args) >= 1
    THEN {l.args[1 + j] : j \in {j \in 1..l.args[1] : 1 + j <= Len(l.args)}}
    ELSE IF evKind = "nnf" /\ l.tok = "O" /\ Len(l.args) >= 2
    THEN {l.args[2 + j] : j \in {j \in 1..l.args[2] : 2 + j <= Len(l.args)}}
    ELSE IF evKind = "sdd" /\ l.tok = "D" /\ Len(l.args) >= 3
    THEN {l.args[3 + j] : j \in {j \in 1..(2 * l.args[3]) : 3 + j <= Len(l.args)}}
    ELSE {}
\* Index c is a slot 0..size-1 of w that holds a weight.
Assigned(w, c) == c >= 0 /\ c < Len(w) /\ w[c + 1].set

\* C1: every finished call either returned a number or raised an error; it
\* never returned an unassigned (None) slot.
C1_NumericOrError ==
    pc = "done" => (outcome \in Errors \/ (outcome = "return" /\ result.set))

\* C2: when nnf_file_wmc returns, the value is the content of the slot of the
\* last processed body line, slot ln - 1, whatever count the header declared.
C2_LastSlotWritten ==
    (pc = "done" /\ evKind = "nnf" /\ outcome = "return" /\ ln > 0)
        => (ln <= Len(wmc) /\ result = wmc[ln])

\* C4: a file holding, after its header, a line whose leading token is not
\* recognized never yields a weight: the call fails.
C4_UnrecognizedAborts ==
    (pc = "done" /\ outcome = "return" /\ result.set)
        => \A i \in 1..Len(lines) :
               HeaderBefore(i) => lines[i].tok \in Recognized \cup {HeaderTok}

\* C5: a file whose first body line is not preceded by a header (or that has
\* no header at all) fails with the format error, and once a header has been
\* accepted the weight array keeps the size that header gave it.
C5_HeaderRequiredOnce ==
    /\ (pc = "done" /\ HeaderMissing) => outcome = "Exception"
    /\ detected => Len(wmc) = Len(NoneList(Headers[1].args[1]))

\* C10: a line that references a slot no earlier line assigned (forward,
\* own slot, or outside 0..size-1) makes the evaluator fail at that line.
C10_UnassignedReadFails ==
    [][(pc = "reading" /\ detected /\ Len(lines') = Len(lines) + 1
          /\ IsBodyLine(lines'[Len(lines')])
          /\ \E c \in RefsOf(lines'[Len(lines')]) : ~Assigned(wmc, c))
       => outcome' \in Errors]_vars

\* ------------------------------------ the Boolean function a file encodes
\* NNF: slot i (0-based) is Body[i + 1]; SDD: node id i is the body line
\* that names it.  An assignment is a function from variables to BOOLEAN.
LitHolds(lit, a) == IF lit > 0 THEN a[lit] ELSE ~a[-lit]
LitVar(lit) == IF lit > 0 THEN lit ELSE -lit

NnfKids(l) ==
    IF l.tok = "A" THEN [j \in 1..l.args[1] |-> l.args[1 + j]]
    ELSE IF l.tok = "O" THEN [j \in 1..l.args[2] |-> l.args[2 + j]]
    ELSE <<>>

RECURSIVE NnfSat(_, _, _)
NnfSat(b, i, a) ==
    LET l == b[i + 1] k == NnfKids(l) IN
    IF l.tok = "L" THEN LitHolds(l.args[1], a)
    ELSE IF l.tok = "A" THEN \A j \in 1..Len(k) : NnfSat(b, k[j], a)
    ELSE \E j \in 1..Len(k) : NnfSat(b, k[j], a)

RECURSIVE NnfVarsOf(_, _)
NnfVarsOf(b, i) ==
    LET l == b[i + 1] k == NnfKids(l) IN
    IF l.tok = "L" THEN {LitVar(l.args[1])}
    ELSE UNION {NnfVarsOf(b, k[j]) : j \in 1..Len(k)}

\* The header comes first and once, declares as many nodes as there are body
\* lines, every line is an L / A / O line with the tokens its kind takes, and
\* every child is an earlier slot.
NnfSyntaxOk ==
    /\ evKind = "nnf"
    /\ Len(NonComment) >= 2
    /\ IsHeader(NonComment[1])
    /\ Len(Headers) = 1
    /\ Len(Headers[1].args) = 3
    /\ Headers[1].args[1] = Len(Body)
    /\ \A i \in 1..Len(Body) :
        LET l == Body[i] IN
        \/ l.tok = "L" /\ Len(l.args) = 1 /\ l.args[1] # 0
              /\ LitVar(l.args[1]) <= Headers[1].args[3]
        \/ l.tok = "A" /\ Len(l.args) >= 1 /\ l.args[1] = Len(l.args) - 1
              /\ \A j \in 2..Len(l.args) : l.args[j] >= 0 /\ l.args[j] < i - 1
        \/ l.tok = "O" /\ Len(l.args) >= 2 /\ l.args[2] = Len(l.args) - 2
              /\ \A j \in 3..Len(l.args) : l.args[j] >= 0 /\ l.args[j] < i - 1

NnfUniverse == 1..Headers[1].args[3]
NnfRoot == Len(Body) - 1
NnfAssignments == [NnfUniverse -> BOOLEAN]

\* A nodes conjoin children over disjoint variables; O nodes disjoin mutually
\* exclusive children.
NnfDecomposable ==
    \A i \in 1..Len(Body) : Body[i].tok = "A" =>
        LET k == NnfKids(Body[i]) IN
        \A x \in 1..Len(k), y \in 1..Len(k) :
            x # y => NnfVarsOf(Body, k[x]) \cap NnfVarsOf(Body, k[y]) = {}
NnfDeterministic ==
    \A i \in 1..Len(Body) : Body[i].tok = "O" =>
        LET k == NnfKids(Body[i]) IN
        \A x \in 1..Len(k), y \in 1..Len(k) :
            x # y => \A a \in NnfAssignments :
                        ~(NnfSat(Body, k[x], a) /\ NnfSat(Body, k[y], a))
\* The children of an O node mention the same variables, and the root
\* mentions every declared variable.
NnfSmooth ==
    /\ \A i \in 1..Len(Body) : Body[i].tok = "O" =>
        LET k == NnfKids(Body[i]) IN
        \A x \in 1..Len(k), y \in 1..Len(k) :
            NnfVarsOf(Body, k[x]) = NnfVarsOf(Body, k[y])
    /\ NnfVarsOf(Body, NnfRoot) = NnfUniverse
NnfModelCount == Cardinality({a \in NnfAssignments : NnfSat(Body, NnfRoot, a)})

\* The body line that defines node id i.
SddLineOf(b, i) == b[CHOOSE j \in 1..Len(b) : b[j].args[1] = i]
\* The (prime, sub) pairs of a D line.
SddElements(l) == [j \in 1..l.args[3] |-> <<l.args[2 + 2 * j], l.args[3 + 2 * j]>>]

RECURSIVE SddSat(_, _, _)
SddSat(b, i, a) ==
    LET l == SddLineOf(b, i) IN
    IF l.tok = "L" THEN LitHolds(l.args[3], a)
    ELSE IF l.tok = "T" THEN TRUE
    ELSE IF l.tok = "F" THEN FALSE
    ELSE \E j \in 1..l.args[3] :
            SddSat(b, SddElements(l)[j][1], a) /\ SddSat(b, SddElements(l)[j][2], a)

RECURSIVE SddVarsOf(_, _)
SddVarsOf(b, i) ==
    LET l == SddLineOf(b, i) IN
    IF l.tok = "L" THEN {LitVar(l.args[3])}
    ELSE IF l.tok \in {"T", "F"} THEN {}
    ELSE UNION {SddVarsOf(b, SddElements(l)[j][1]) \cup SddVarsOf(b, SddElements(l)[j][2]) :
                    j \in 1..l.args[3]}

\* The header comes first and once, every line is an L / F / T / D line that
\* defines a fresh id below the capacity, node 0 is defined, and every prime
\* and sub is an id an earlier line defined.
SddSyntaxOk ==
    /\ evKind = "sdd"
    /\ Len(NonComment) >= 2
    /\ IsHeader(NonComment[1])
    /\ Len(Headers) = 1
    /\ \A i \in 1..Len(Body) : Body[i].tok \in {"L", "F", "T", "D"} /\ Len(Body[i].args) >= 1
    /\ \E i \in 1..Len(Body) : Body[i].args[1] = 0
    /\ \A i \in 1..Len(Body) :
        LET l == Body[i] IN
        /\ l.args[1] >= 0 /\ l.args[1] < Headers[1].args[1]
        /\ \A j \in 1..(i - 1) : Body[j].args[1] # l.args[1]
        /\ l.tok = "L" => Len(l.args) = 3 /\ l.args[3] # 0
        /\ l.tok = "D" =>
            /\ Len(l.args) = 3 + 2 * l.args[3]
            /\ \A j \in 4..Len(l.args) :
                \E e \in 1..(i - 1) : Body[e].args[1] = l.args[j]

SddUniverse == SddVarsOf(Body, 0)
SddAssignments == [SddUniverse -> BOOLEAN]
SddElementSat(b, e, a) == SddSat(b, e[1], a) /\ SddSat(b, e[2], a)
SddElementVars(b, e) == SddVarsOf(b, e[1]) \cup SddVarsOf(b, e[2])
SddDecomposable ==
    \A i \in 1..Len(Body) : Body[i].tok = "D" =>
        LET es == SddElements(Body[i]) IN
        \A x \in 1..Len(es) : SddVarsOf(Body, es[x][1]) \cap SddVarsOf(Body, es[x][2]) = {}
SddDeterministic ==
    \A i \in 1..Len(Body) : Body[i].tok = "D" =>
        LET es == SddElements(Body[i]) IN
        \A x \in 1..Len(es), y \in 1..Len(es) :
            x # y => \A a \in [1..MaxVar -> BOOLEAN] :
                        ~(SddElementSat(Body, es[x], a) /\ SddElementSat(Body, es[y], a))
SddSmooth ==
    \A i \in 1..Len(Body) : Body[i].tok = "D" =>
        LET es == SddElements(Body[i]) IN
        \A x \in 1..Len(es), y \in 1..Len(es) :
            SddElementVars(Body, es[x]) = SddElementVars(Body, es[y])
SddModelCount == Cardinality({a \in SddAssignments : SddSat(Body, 0, a)})

WellFormed ==
    \/ NnfSyntaxOk /\ NnfDecomposable /\ NnfDeterministic
    \/ SddSyntaxOk /\ SddDecomposable /\ SddDeterministic
Smooth == IF evKind = "nnf" THEN NnfSmooth ELSE SddSmooth
ModelCount == IF evKind = "nnf" THEN NnfModelCount ELSE SddModelCount
AllOnes == ~weights.isNone /\ \A k \in weights.keys : weights.val[k] = 1

\* The statement of C3 as claimed: with unit weights every well-formed file
\* evaluates to the number of satisfying assignments of its function.
C3_UnitWeightsCountModels ==
    (pc = "done" /\ AllOnes /\ WellFormed)
        => (outcome = "return" /\ result = Num(ModelCount))

\* C3 (amended): with unit weights every well-formed file whose circuit is
\* also smooth evaluates to the number of satisfying assignments.
C3_SmoothUnitWeightsCountModels ==
    (pc = "done" /\ AllOnes /\ WellFormed /\ Smooth)
        => (outcome = "return" /\ result = Num(ModelCount))

\* A smooth well-formed file with two models was evaluated.
C3_Witness ==
    pc = "done" /\ AllOnes /\ WellFormed /\ Smooth /\ outcome = "return"
        /\ result = Num(2) /\ \E i \in 1..Len(Body) : Body[i].tok \in {"O", "D"}

\* ------------------------------------------------------ renderer claims
RECURSIVE Reach(_)
\* The nodes reachable from n (n included).
Reach(n) ==
    {n} \cup UNION {Reach(Dag[n].elements[i][1]) \cup Reach(Dag[n].elements[i][2]) :
                        i \in 1..Len(Dag[n].elements)}
\* The places (decision, element, prime or sub) below root that hold node n.
RefsTo(root, n) ==
    {r \in Reach(root) \X (1..2) \X (1..2) :
        /\ r[2] <= Len(Dag[r[1]].elements)
        /\ Dag[r[1]].elements[r[2]][r[3]] = n}
\* The places below root that hold a leaf, plus the root itself when a leaf.
LeafOccurrences(root) ==
    Cardinality(UNION {RefsTo(root, n) : n \in {x \in Nodes : IsLeaf(x)}})
        + (IF IsLeaf(root) THEN 1 ELSE 0)
\* Some leaf below root is a prime or sub of two different decision nodes.
HasSharedLeaf(root) ==
    \E n \in Nodes : IsLeaf(n) /\
        \E r1 \in RefsTo(root, n), r2 \in RefsTo(root, n) : r1[1] # r2[1]
DeclIndexes(text) == {i \in 1..Len(text) : text[i].t \in {"dec", "leaf", "ps"}}
DeclsOf(text, id) == {i \in DeclIndexes(text) : text[i].id = id}
EdgesTo(text, id) == {i \in 1..Len(text) : text[i].t = "edge" /\ text[i].to = id}

\* C6: a call with the same arguments as an earlier call returns the same text
\* (or raises the same error), whatever calls ran in between.
C6_RenderIdempotent ==
    (memo.valid /\ memo.call = rcall) => rout = memo.out

\* The latest call repeated an earlier call on a decision node with unmerged
\* leaves, after calls that left the counter above zero.
C6_Witness ==
    /\ memo.valid /\ memo.call = rcall /\ rout.status = "text"
    /\ ~rcall.merge /\ IsDecision(rcall.root) /\ node_count >= 2
    /\ \E i \in 1..Len(rout.text) : rout.text[i].id.pre = "n"

\* C8: in the text of one call every reachable decision node (and, with
\* merge_leafs, every reachable leaf) is declared once under str(node.id),
\* each of its elements is expanded once, and every reference to it is an
\* edge to that identifier.
C8_SharedNodesOnce ==
    rout.status = "text" =>
        \A n \in Reach(rcall.root) : (IsDecision(n) \/ rcall.merge) =>
            /\ Cardinality(DeclsOf(rout.text, StrId(Dag[n].id))) = 1
            /\ \A idx \in 0..(Len(Dag[n].elements) - 1) :
                /\ Cardinality(DeclsOf(rout.text, PsId(Dag[n].id, idx))) = 1
                /\ Cardinality({i \in 1..Len(rout.text) :
                        /\ rout.text[i].t = "edge_nohead"
                        /\ rout.text[i].id = StrId(Dag[n].id)
                        /\ rout.text[i].to = PsId(Dag[n].id, idx)}) = 1
            /\ Cardinality(EdgesTo(rout.text, StrId(Dag[n].id)))
                   = Cardinality(RefsTo(rcall.root, n))

\* A DAG whose decision node has several parents was rendered.
C8_Witness ==
    /\ rout.status = "text"
    /\ \E n \in Reach(rcall.root) :
        IsDecision(n) /\ Cardinality(RefsTo(rcall.root, n)) >= 2
    /\ \E n \in Reach(rcall.root) :
        IsLeaf(n) /\ rcall.merge /\ Cardinality(RefsTo(rcall.root, n)) >= 2

\* C9: without merge_leafs every leaf occurrence is declared, all declared
\* identifiers of one text are distinct, and for a DAG with a leaf under two
\* decision nodes the merged text declares fewer nodes than the unmerged one.
C9_UnmergedLeavesDistinct ==
    /\ (rout.status = "text" /\ ~rcall.merge) =>
        /\ Cardinality({i \in 1..Len(rout.text) : rout.text[i].t = "leaf"})
               = LeafOccurrences(rcall.root)
        /\ \A i \in DeclIndexes(rout.text), j \in DeclIndexes(rout.text) :
               i # j => rout.text[i].id # rout.text[j].id
    /\ (memo.valid /\ memo.out.status = "text" /\ rout.status = "text"
          /\ memo.call.root = rcall.root /\ HasSharedLeaf(rcall.root)
          /\ memo.call.merge /\ ~rcall.merge) =>
        Cardinality(DeclIndexes(memo.out.text)) < Cardinality(DeclIndexes(rout.text))

\* A DAG with a leaf under two decision nodes was rendered merged, then
\* unmerged.
C9_Witness ==
    /\ memo.valid /\ memo.out.status = "text" /\ rout.status = "text"
    /\ memo.call.root = rcall.root /\ HasSharedLeaf(rcall.root)
    /\ memo.call.merge /\ ~rcall.merge
    /\ LeafOccurrences(rcall.root) >= 3

\* What the call returns when it runs alone in a process (node_count = 0 at import).
Solo(c) == SddToDot(c, 0).out
\* Two leaf statements of the text carry the same identifier.
DuplicateLeafId(text) ==
    \E i \in 1..Len(text), j \in 1..Len(text) :
        i # j /\ text[i].t = "leaf" /\ text[j].t = "leaf" /\ text[i].id = text[j].id

\* C7: the counter is shared by all calls of the process: a call's text can
\* differ from the text it returns when run alone only if another thread
\* wrote node_count during the call (and the witness shows that it does).
C7_SoloUnlessInterfered ==
    \A t \in ThreadIds :
        (th[t].pc = "done" /\ ~th[t].interfered) => th[t].out = Solo(th[t].call)

\* An interleaving of two unmerged renders after which one call's text differs
\* from its text when run alone and declares one leaf identifier twice.
C7_Witness ==
    \E t \in ThreadIds, u \in ThreadIds :
        /\ t # u /\ th[u].pc # "idle" /\ ~th[u].call.merge
        /\ th[t].pc = "done" /\ ~th[t].call.merge
        /\ th[t].out # Solo(th[t].call)
        /\ DuplicateLeafId(th[t].out.text)

====
